---- MODULE Spec2Model ----
(***************************************************************************)
(* plant-paladin: a command-line reminder that records when houseplants    *)
(* were last watered (src/main.rs).                                        *)
(*                                                                         *)
(* State: the two files of the per-user config directory (config.toml,     *)
(* edited by the user, and state.toml, maintained by the program) and the  *)
(* observable record of the last invocation (arguments, clock reading,     *)
(* the values the handler held in memory, its output and its result).      *)
(*                                                                         *)
(* Time is counted in ticks since 1900-01-01 00:00:00, TicksPerDay ticks   *)
(* to the day.  64-bit integers are written [q, r], standing for           *)
(* q * 2^63 + r with r small, so that the u64 -> i64 cast of main.rs:120   *)
(* and main.rs:148 keeps its width.                                        *)
(***************************************************************************)
EXTENDS Integers, Sequences, FiniteSets, TLC

VARIABLES
    configFile,  \* config.toml: [exists, plants: name -> Plant]
    stateFile,   \* state.toml:  [exists, plants: name -> last_watered]
    op,          \* last step: "init", "edit", "nag" or "water"
    all,         \* WaterArgs.all of the last water invocation
    plants,      \* WaterArgs.plants of the last water invocation
    now,         \* the clock reading the last invocation captured
    cfg,         \* the Config the last invocation loaded
    before,      \* state.toml as the last invocation found it
    synced,      \* State.plants right after sync_state_with_config
    mem,         \* State.plants when the handler returned
    result,      \* "ok" (Ok(())), "err" (bail!) or "panic" (unwrap on None)
    printed,     \* lines nag printed: {[plant, days]}
    wrote        \* whether write_state was called

vars == <<configFile, stateFile, op, all, plants, now, cfg, before, synced,
          mem, result, printed, wrote>>

----------------------------------------------------------------------------
(* Bounds of the model *)

MaxNow == 3          \* clock readings are 1..MaxNow ticks after 1900-01-01
MaxInterval == 1     \* low parts of the watering intervals: 0..MaxInterval
MaxArgs == 2         \* length of the plant list on the command line
TicksPerDay == 2     \* resolution of the clock

Names == {"a", "b"}

\* The clock is an input of every invocation and need not be monotonic
\* (naive local time).  Readings are taken shortly after the sentinel date,
\* so that intervals below and above the days elapsed since 1900-01-01
\* both occur within the bounds.
Nows == 1..MaxNow

\* u64 values hi * 2^63 + lo: the small intervals and 2^63
Intervals == {[hi |-> 0, lo |-> k] : k \in 0..MaxInterval} \cup {[hi |-> 1, lo |-> 0]}

RECURSIVE SeqsUpTo(_)
SeqsUpTo(n) ==
    IF n = 0 THEN {<<>>}
    ELSE LET shorter == SeqsUpTo(n - 1)
         IN shorter \cup {Append(s, x) : s \in {t \in shorter : Len(t) = n - 1}, x \in Names}

ArgLists == SeqsUpTo(MaxArgs)

----------------------------------------------------------------------------
(* 64-bit arithmetic: [q, r] is q * 2^63 + r, |r| < 2^62 *)

I64Of(n) == [q |-> 0, r |-> n]

\* value of a u64
U64Value(u) == [q |-> u.hi, r |-> u.lo]

\* `u as i64`: two's complement, 2^63 + lo becomes -2^63 + lo
AsI64(u) == [q |-> IF u.hi = 1 THEN -1 ELSE 0, r |-> u.lo]

WideLe(x, y) == x.q < y.q \/ (x.q = y.q /\ x.r <= y.r)

----------------------------------------------------------------------------
(* Data model *)

\* PlantStatus::default(): 1900-01-01 00:00:00
Sentinel == 0

EmptyMap == [p \in {} |-> 0]

\* chrono Duration::num_days: whole days, truncated toward zero
num_days(d) == IF d >= 0 THEN d \div TicksPerDay ELSE -((-d) \div TicksPerDay)

\* default-config.toml, the document written on first run
DefaultConfig == [p \in {"a"} |-> [hi |-> 0, lo |-> 1]]

Configs == UNION {[S -> Intervals] : S \in SUBSET Names}

load_config(cf) ==
    IF cf.exists THEN [config |-> cf.plants, file |-> cf]
    ELSE [config |-> DefaultConfig,
          file |-> [exists |-> TRUE, plants |-> DefaultConfig]]

load_state(sf) == IF sf.exists THEN sf.plants ELSE EmptyMap

write_state(state) == [exists |-> TRUE, plants |-> state]

----------------------------------------------------------------------------
(* Reconciler *)

\* slip: the retain step is missing, orphaned records survive
sync_no_retain(config, state) ==
    LET missing == {k \in DOMAIN config : k \notin DOMAIN state}
    IN [p \in DOMAIN state \cup missing |->
            IF p \in DOMAIN state THEN state[p] ELSE Sentinel]

\* slip: a configured key that is present is removed instead of kept
sync_toggle(config, state) ==
    LET missing == {k \in DOMAIN config : k \notin DOMAIN state}
    IN [p \in missing |-> Sentinel]

sync_state_with_config(config, state) ==
    LET kept == [p \in {k \in DOMAIN state : k \in DOMAIN config} |-> state[p]]
        missing == {k \in DOMAIN config : k \notin DOMAIN kept}
    IN [p \in DOMAIN kept \cup missing |->
            IF p \in DOMAIN kept THEN kept[p] ELSE Sentinel]

----------------------------------------------------------------------------
(* Overdue tests, as written in the two handlers *)

\* slip: the boundary made exclusive
water_due_strict(plant, last_watered, t) ==
    /\ WideLe(AsI64(plant), I64Of(num_days(t - last_watered)))
    /\ AsI64(plant) # I64Of(num_days(t - last_watered))

\* cmd_water: (now - status.last_watered).num_days() >= plant.watering_interval as i64
water_due(plant, last_watered, t) ==
    WideLe(AsI64(plant), I64Of(num_days(t - last_watered)))

\* cmd_nag: watering_frequency as i64 <= days
nag_due(plant, days) == WideLe(AsI64(plant), I64Of(days))

----------------------------------------------------------------------------
(* Command: water *)

\* the loop of lines 130-132
RECURSIVE mark_watered(_, _, _)
mark_watered(state, ps, t) ==
    IF ps = <<>> THEN state
    ELSE mark_watered([state EXCEPT ![Head(ps)] = t], Tail(ps), t)

\* slip: validation interleaved with the updates, one loop instead of two
RECURSIVE water_named_interleaved(_, _, _, _)
water_named_interleaved(config, state, ps, t) ==
    IF ps = <<>> THEN [ok |-> TRUE, state |-> state]
    ELSE IF Head(ps) \notin DOMAIN config THEN [ok |-> FALSE, state |-> state]
    ELSE water_named_interleaved(config, [state EXCEPT ![Head(ps)] = t], Tail(ps), t)

\* slip: the bulk-mode overdue test applied to the named plants too
water_named_if_due(config, state, ps, t) ==
    IF \E i \in 1..Len(ps) : ps[i] \notin DOMAIN config
    THEN [ok |-> FALSE, state |-> state]
    ELSE [ok |-> TRUE,
          state |-> [p \in DOMAIN state |->
                        IF (\E i \in 1..Len(ps) : ps[i] = p)
                           /\ water_due(config[p], state[p], t)
                        THEN t ELSE state[p]]]

\* targeted mode, lines 125-132: validate every name, then update every name
water_named(config, state, ps, t) ==
    IF \E i \in 1..Len(ps) : ps[i] \notin DOMAIN config
    THEN [ok |-> FALSE, state |-> state]
    ELSE [ok |-> TRUE, state |-> mark_watered(state, ps, t)]

\* bulk mode, lines 118-123
water_all(config, state, t) ==
    [p \in DOMAIN state |->
        IF p \in DOMAIN config /\ water_due(config[p], state[p], t)
        THEN t ELSE state[p]]

\* get_mut(..).unwrap() on a name the reconciled state does not hold
\* (lines 119 and 131)
water_panics(config, state, a, ps) ==
    IF a THEN \E p \in DOMAIN config : p \notin DOMAIN state
    ELSE /\ \A i \in 1..Len(ps) : ps[i] \in DOMAIN config
         /\ \E i \in 1..Len(ps) : ps[i] \notin DOMAIN state

\* slip: the reconciled state is saved before the names are validated
cmd_water_early_write(cf, sf, a, ps, t) ==
    LET lc == load_config(cf)
        s0 == sync_state_with_config(lc.config, load_state(sf))
        r == IF a THEN [ok |-> TRUE, state |-> water_all(lc.config, s0, t)]
             ELSE water_named(lc.config, s0, ps, t)
    IN IF water_panics(lc.config, s0, a, ps)
       THEN [configFile |-> lc.file, cfg |-> lc.config, synced |-> s0,
             mem |-> s0, stateFile |-> sf, result |-> "panic", wrote |-> FALSE]
       ELSE [configFile |-> lc.file, cfg |-> lc.config, synced |-> s0,
             mem |-> r.state,
             stateFile |-> write_state(r.state),
             result |-> IF r.ok THEN "ok" ELSE "err",
             wrote |-> TRUE]

cmd_water(cf, sf, a, ps, t) ==
    LET lc == load_config(cf)
        s0 == sync_state_with_config(lc.config, load_state(sf))
        r == IF a THEN [ok |-> TRUE, state |-> water_all(lc.config, s0, t)]
             ELSE water_named(lc.config, s0, ps, t)
    IN IF water_panics(lc.config, s0, a, ps)
       THEN [configFile |-> lc.file, cfg |-> lc.config, synced |-> s0,
             mem |-> s0, stateFile |-> sf, result |-> "panic", wrote |-> FALSE]
       ELSE [configFile |-> lc.file, cfg |-> lc.config, synced |-> s0,
             mem |-> r.state,
             stateFile |-> IF r.ok THEN write_state(r.state) ELSE sf,
             result |-> IF r.ok THEN "ok" ELSE "err",
             wrote |-> r.ok]

----------------------------------------------------------------------------
(* Command: nag *)

\* config.plants.get(&plant).unwrap() on a record with no configured plant
\* (line 147)
nag_panics(config, state) == \E p \in DOMAIN state : p \notin DOMAIN config

nag_lines(config, state, t) ==
    {[plant |-> p, days |-> num_days(t - state[p])] :
        p \in {k \in DOMAIN state : nag_due(config[k], num_days(t - state[k]))}}

\* slip: the reconciled state is written back
cmd_nag_saves(cf, sf, t) ==
    LET s0 == load_state(sf)
        lc == load_config(cf)
        s1 == sync_state_with_config(lc.config, s0)
    IN IF nag_panics(lc.config, s1)
       THEN [configFile |-> lc.file, cfg |-> lc.config, synced |-> s1, mem |-> s1,
             stateFile |-> sf, printed |-> {}, result |-> "panic", wrote |-> FALSE]
       ELSE [configFile |-> lc.file, cfg |-> lc.config, synced |-> s1, mem |-> s1,
             stateFile |-> write_state(s1),
             printed |-> nag_lines(lc.config, s1, t),
             result |-> "ok", wrote |-> TRUE]

cmd_nag(cf, sf, t) ==
    LET s0 == load_state(sf)
        lc == load_config(cf)
        s1 == sync_state_with_config(lc.config, s0)
    IN IF nag_panics(lc.config, s1)
       THEN [configFile |-> lc.file, cfg |-> lc.config, synced |-> s1, mem |-> s1,
             stateFile |-> sf, printed |-> {}, result |-> "panic", wrote |-> FALSE]
       ELSE [configFile |-> lc.file, cfg |-> lc.config, synced |-> s1, mem |-> s1,
             stateFile |-> sf,
             printed |-> nag_lines(lc.config, s1, t),
             result |-> "ok", wrote |-> FALSE]

----------------------------------------------------------------------------
(* The system: a fresh config directory, then the user edits config.toml   *)
(* and runs the two commands in any order, one invocation at a time.       *)

NoFile == [exists |-> FALSE, plants |-> EmptyMap]

Init ==
    /\ configFile = NoFile
    /\ stateFile = NoFile
    /\ op = "init"
    /\ all = FALSE
    /\ plants = <<>>
    /\ now = 1
    /\ cfg = EmptyMap
    /\ before = NoFile
    /\ synced = EmptyMap
    /\ mem = EmptyMap
    /\ result = "ok"
    /\ printed = {}
    /\ wrote = FALSE

\* the user rewrites config.toml between two invocations
EditConfig ==
    \E c \in Configs :
        /\ configFile' = [exists |-> TRUE, plants |-> c]
        /\ op' = "edit"
        /\ all' = FALSE
        /\ plants' = <<>>
        /\ now' = 1
        /\ cfg' = EmptyMap
        /\ before' = stateFile
        /\ synced' = EmptyMap
        /\ mem' = EmptyMap
        /\ result' = "ok"
        /\ printed' = {}
        /\ wrote' = FALSE
        /\ UNCHANGED stateFile

Nag ==
    \E t \in Nows :
        LET r == cmd_nag(configFile, stateFile, t)
        IN /\ op' = "nag"
           /\ all' = FALSE
           /\ plants' = <<>>
           /\ now' = t
           /\ before' = stateFile
           /\ configFile' = r.configFile
           /\ stateFile' = r.stateFile
           /\ cfg' = r.cfg
           /\ synced' = r.synced
           /\ mem' = r.mem
           /\ result' = r.result
           /\ printed' = r.printed
           /\ wrote' = r.wrote

\* with -a the handler never reads args.plants (line 117): the plant list
\* is enumerated in targeted mode only
Water ==
    \E t \in Nows, a \in BOOLEAN, ps \in ArgLists :
        LET r == cmd_water(configFile, stateFile, a, ps, t)
        IN /\ a => ps = <<>>
           /\ op' = "water"
           /\ all' = a
           /\ plants' = ps
           /\ now' = t
           /\ before' = stateFile
           /\ configFile' = r.configFile
           /\ stateFile' = r.stateFile
           /\ cfg' = r.cfg
           /\ synced' = r.synced
           /\ mem' = r.mem
           /\ result' = r.result
           /\ printed' = {}
           /\ wrote' = r.wrote

Next == EditConfig \/ Nag \/ Water

Spec == Init /\ [][Next]_vars

----------------------------------------------------------------------------
(* Properties *)

Ran == op \in {"nag", "water"}

Named(p) == \E i \in 1..Len(plants) : plants[i] = p

SomeNameMissing == \E i \in 1..Len(plants) : plants[i] \notin DOMAIN cfg

PrintedPlants == {l.plant : l \in printed}

\* whole days of a duration, rounded down
FloorDays(d) == d \div TicksPerDay

\* days >= interval, the interval taken as the number the user configured
DueAsConfigured(plant, days) == WideLe(U64Value(plant), I64Of(days))

\* C1: after sync_state_with_config the keys of the state are the keys of
\* the config; a key that was in both keeps its last_watered and a newly
\* inserted key holds the never-watered sentinel.
C1_SyncKeysAndValues ==
    Ran =>
        /\ DOMAIN synced = DOMAIN cfg
        /\ \A p \in DOMAIN cfg :
              IF p \in DOMAIN before.plants
              THEN synced[p] = before.plants[p]
              ELSE synced[p] = Sentinel

C1_Witness ==
    /\ Ran
    /\ \E p \in DOMAIN before.plants : p \notin DOMAIN cfg
    /\ \E p \in DOMAIN cfg : p \notin DOMAIN before.plants /\ synced[p] = Sentinel

\* C2: a targeted water command naming a plant absent from config fails,
\* updates no last_watered (not even of the existing plants named before
\* the missing one) and leaves the state file as it was.
C2_FailedWaterChangesNothing ==
    (op = "water" /\ ~all /\ SomeNameMissing) =>
        /\ result = "err"
        /\ ~wrote
        /\ stateFile = before
        /\ mem = synced

C2_Witness ==
    /\ op = "water" /\ ~all /\ result = "err"
    /\ before.exists
    /\ Len(plants) = 2
    /\ plants[1] \in DOMAIN cfg
    /\ plants[2] \notin DOMAIN cfg

\* C3: nag never changes the state file: it is not written, not even when
\* it does not exist yet or when reconciliation added or removed records
\* in memory.
C3_NagLeavesStateFile ==
    op = "nag" => (result = "ok" /\ ~wrote /\ stateFile = before)

C3_Witness ==
    /\ op = "nag"
    /\ before.exists
    /\ synced # before.plants
    /\ printed # {}

\* C4 (amended): water -a cannot fail; it sets last_watered to now exactly
\* for the configured plants whose whole days since last_watered, truncated
\* toward zero, are >= watering_interval as the handler reads it (after the
\* conversion to i64), and leaves the others unchanged; a never-watered
\* plant is treated like any other.
C4_BulkUpdatesByHandlerTest ==
    (op = "water" /\ all) =>
        /\ result = "ok"
        /\ wrote
        /\ DOMAIN mem = DOMAIN cfg
        /\ \A p \in DOMAIN cfg :
              IF WideLe(AsI64(cfg[p]), I64Of(num_days(now - synced[p])))
              THEN mem[p] = now
              ELSE mem[p] = synced[p]

C4_Witness ==
    /\ op = "water" /\ all /\ result = "ok"
    /\ \E p \in DOMAIN cfg :
          /\ synced[p] \notin {Sentinel, now}
          /\ num_days(now - synced[p]) = cfg[p].lo
          /\ cfg[p].hi = 0
          /\ mem[p] = now
    /\ \E q \in DOMAIN cfg :
          synced[q] = Sentinel /\ mem[q] = Sentinel

\* C4 (as claimed): water -a sets last_watered to now exactly for the plants
\* with floor(days since last_watered) >= watering_interval, always updates
\* a never-watered plant, and cannot fail.
C4_BulkUpdatesExactlyOverdue ==
    (op = "water" /\ all) =>
        /\ result = "ok"
        /\ \A p \in DOMAIN cfg :
              /\ IF DueAsConfigured(cfg[p], FloorDays(now - synced[p]))
                 THEN mem[p] = now
                 ELSE mem[p] = synced[p]
              /\ synced[p] = Sentinel => mem[p] = now

\* C5: a targeted water command whose names all exist sets last_watered of
\* every named plant to the one captured now, overdue or not, leaves every
\* other configured plant unchanged and saves the reconciled state.
C5_TargetedWaterMarksNamed ==
    (op = "water" /\ ~all /\ ~SomeNameMissing) =>
        /\ result = "ok"
        /\ wrote
        /\ stateFile = [exists |-> TRUE, plants |-> mem]
        /\ DOMAIN mem = DOMAIN cfg
        /\ \A p \in DOMAIN cfg :
              IF Named(p) THEN mem[p] = now ELSE mem[p] = synced[p]

C5_Witness ==
    /\ op = "water" /\ ~all /\ result = "ok"
    /\ \E p \in DOMAIN cfg :
          /\ Named(p)
          /\ ~DueAsConfigured(cfg[p], num_days(now - synced[p]))
          /\ synced[p] # now
          /\ mem[p] = now
    /\ \E q \in DOMAIN cfg :
          ~Named(q) /\ synced[q] \notin {Sentinel, now} /\ mem[q] = synced[q]

C7_SyncIdempotent ==
    Ran => sync_state_with_config(cfg, synced) = synced

C7_Witness ==
    /\ Ran
    /\ synced # before.plants
    /\ \E p \in DOMAIN cfg : p \notin DOMAIN before.plants
    /\ \E p \in DOMAIN synced : synced[p] # Sentinel

\* C8 (as claimed): water without -a and without plant names does not
\* complete successfully and write the state file.
C8_WaterNeedsNames ==
    ~(op = "water" /\ ~all /\ plants = <<>> /\ result = "ok" /\ wrote)

\* the plants the last command watered, by the test the handler applies
Watered(p) ==
    /\ op = "water" /\ result = "ok"
    /\ p \in DOMAIN cfg
    /\ IF all THEN water_due(cfg[p], synced[p], now) ELSE Named(p)

Persisted(p) == stateFile.exists /\ p \in DOMAIN stateFile.plants

\* C9 (as claimed): a persisted last_watered changes only through a
\* successful water command that targets the plant, and is never dropped.
C9_StatusNeverChangesOrDrops ==
    [][\A p \in Names :
          Persisted(p) =>
             /\ Persisted(p)'
             /\ (Persisted(p)' /\ stateFile'.plants[p] # stateFile.plants[p]) =>
                   /\ Watered(p)'
                   /\ stateFile'.plants[p] = now'
                   /\ stateFile'.plants[p] # Sentinel]_vars

\* C9 (amended): a persisted last_watered changes only through a successful
\* water command that waters the plant, and then becomes that command's
\* now, never the sentinel; the record is dropped only by a successful
\* water command run while the plant is absent from config.
C9_StatusChangesOnlyByWater ==
    [][\A p \in Names :
          Persisted(p) =>
             /\ ~Persisted(p)' =>
                   (op' = "water" /\ result' = "ok" /\ p \notin DOMAIN cfg')
             /\ (Persisted(p)' /\ stateFile'.plants[p] # stateFile.plants[p]) =>
                   /\ Watered(p)'
                   /\ stateFile'.plants[p] = now'
                   /\ stateFile'.plants[p] # Sentinel]_vars

C9_Witness ==
    /\ op = "water" /\ result = "ok"
    /\ before.exists
    /\ \E p \in DOMAIN before.plants :
          /\ before.plants[p] # Sentinel
          /\ p \notin DOMAIN stateFile.plants
    /\ \E q \in DOMAIN before.plants :
          /\ q \in DOMAIN stateFile.plants
          /\ before.plants[q] # Sentinel
          /\ stateFile.plants[q] = before.plants[q]

====
